---- MODULE Spec2Model ----
(***************************************************************************)
(* Session state machine of the LiveLex backend: one WebSocket connection  *)
(* (ws_stream in app/routers/base.py) driving the lesson graph nodes of    *)
(* app/routers/lesson_graph.py.                                            *)
(*                                                                         *)
(* Encoding.  Python None / Optional values are sequences of length 0 or 1 *)
(* (None == <<>>, Some(x) == <<x>>).  Python dicts are functions whose     *)
(* DOMAIN is the set of keys present.  Item indices are 0-based as in the  *)
(* code; plan.objects[i] is objects[i + 1] here.  The outcome stored in    *)
(* completed_objects is "True", "False" or "None" (the skip marker).       *)
(*                                                                         *)
(* Every call of an external service (LLM, speech-to-text) that the code   *)
(* wraps in try/except is modelled with both of its outcomes (the call     *)
(* returns, the call raises).                                              *)
(***************************************************************************)
EXTENDS Integers, Sequences, FiniteSets, TLC

VARIABLES
    plan,                   \* SessionState.plan
    current_object_index,   \* SessionState.current_object_index
    completed_objects,      \* SessionState.completed_objects
    item_attempts,          \* SessionState.item_attempts
    item_hints_used,        \* SessionState.item_hints_used
    item_gave_up,           \* SessionState.item_gave_up
    waiting_for_repeat,     \* SessionState.waiting_for_repeat
    lesson_saved,           \* SessionState.lesson_saved (lesson_completed)
    pending_transcription,  \* SessionState.pending_transcription
    pending_image,          \* SessionState.pending_image
    lesson_state,           \* lesson_state of the LessonState the last graph run returned
    sent,                   \* messages written to the WebSocket by the last event
    turn,                   \* what the last event did (history of one event)
    items_generated         \* objects of all the plans generated on the connection

vars == <<plan, current_object_index, completed_objects, item_attempts,
          item_hints_used, item_gave_up, waiting_for_repeat, lesson_saved,
          pending_transcription, pending_image, lesson_state, sent, turn,
          items_generated>>

---------------------------------------------------------------------------
(* Bounds of the model *)

\* the plans generated on one connection hold at most this many objects in total
MaxItems == 2

(* Program constants *)

\* max_attempts in evaluate_node
max_attempts == 3
\* hints available per item in the hint_request branch
max_hints == 2

None == <<>>
Some(x) == <<x>>

\* correlation tokens (utterance_id)
Tokens == {"T1", "T2"}
\* image payloads (data_url)
Images == {"imgA", "imgB"}
\* transcripts: one with a hint keyword, one with a give-up keyword, one with neither
Texts == {"a hint please", "i don't know", "manzana"}
\* target_name of a plan object: a word, or the empty string
TargetNames == {"word", ""}

RECURSIVE SeqsUpTo(_, _)
SeqsUpTo(S, n) ==
    IF n = 0 THEN {<<>>}
    ELSE LET shorter == SeqsUpTo(S, n - 1)
         IN  shorter \cup {Append(s, x) : s \in {t \in shorter : Len(t) = n - 1}, x \in S}

---------------------------------------------------------------------------
(* dict helpers *)

Get(d, k, default) == IF k \in DOMAIN d THEN d[k] ELSE default
Put(d, k, v) == [x \in (DOMAIN d) \cup {k} |-> IF x = k THEN v ELSE d[x]]
EmptyDict == <<>>

\* {idx for idx, _ in completed_objects}
CompletedIndices(completed) == {completed[k][1] : k \in DOMAIN completed}

\* [(idx, c) for idx, c in completed if idx != i]
RECURSIVE WithoutIndex(_, _)
WithoutIndex(completed, i) ==
    IF completed = <<>> THEN <<>>
    ELSE IF Head(completed)[1] = i THEN WithoutIndex(Tail(completed), i)
         ELSE <<Head(completed)>> \o WithoutIndex(Tail(completed), i)

RECURSIVE CountWhere(_, _)
CountWhere(completed, outcomes) ==
    IF completed = <<>> THEN 0
    ELSE (IF Head(completed)[2] \in outcomes THEN 1 ELSE 0)
         + CountWhere(Tail(completed), outcomes)

Msg(type, idx, payload) == [type |-> type, object_index |-> idx, payload |-> payload]
Status(code) == Msg("status", -1, Some(code))

---------------------------------------------------------------------------
(* base.py: pure functions *)

\* get_next_object_index without the look at completed_objects
get_first_object_index(objects, completed) ==
    IF Len(objects) = 0 THEN -1 ELSE 0

\* get_next_object_index that takes the records to be in the order of the plan
get_next_object_index_in_order(objects, completed) ==
    IF Len(completed) < Len(objects) THEN Len(completed) ELSE -1

get_next_object_index(objects, completed) ==
    LET open == {i \in 0 .. Len(objects) - 1 : i \notin CompletedIndices(completed)}
    IN  IF open = {} THEN -1 ELSE CHOOSE i \in open : \A j \in open : i <= j

\* summary_items of generate_summary: one record per entry of completed_objects
\* whose index is in the plan, in the order of completed_objects
RECURSIVE SummaryItems(_, _, _, _, _)
SummaryItems(objects, completed, attempts, hints, gave_up) ==
    IF completed = <<>> THEN <<>>
    ELSE LET idx == Head(completed)[1]
             rest == SummaryItems(objects, Tail(completed), attempts, hints, gave_up)
         IN  IF idx < Len(objects)
             THEN <<[index |-> idx,
                     correct |-> Head(completed)[2],
                     attempts |-> Get(attempts, idx, 1),
                     hints_used |-> Get(hints, idx, 0),
                     gave_up |-> Get(gave_up, idx, 0) > 0]>> \o rest
             ELSE rest

generate_summary(objects, completed, attempts, hints, gave_up) ==
    LET items == SummaryItems(objects, completed, attempts, hints, gave_up)
    IN  [items |-> items,
         total |-> Len(items),
         correct_count |-> CountWhere(completed, {"True"}),
         incorrect_count |-> CountWhere(completed, {"False", "None"})]

\* the summary feedback_node builds in its except branch
fallback_summary(completed) ==
    [items |-> <<>>,
     total |-> Len(completed),
     correct_count |-> CountWhere(completed, {"True"}),
     incorrect_count |-> CountWhere(completed, {"False", "None"})]

---------------------------------------------------------------------------
(* External calls.  An outcome record says what each external call of one  *)
(* event does: the intent classifier (LLM), the judge (LLM) and the hint   *)
(* generator (LLM).                                                        *)

\* what the LLM of detect_user_intent_with_llm does: "skipped" (no context message
\* or no API key, so the LLM is not asked), "raise", or the text it replies
LlmReplies == {"skipped", "raise", "hint_request", "dont_know", "answer_attempt", "no_object"}

\* what the call of evaluate_response in evaluate_node does: it raises, or the
\* structured LLM output (correct, error_category) it is built from
JudgeOutcomes ==
    {[raised |-> TRUE, correct |-> FALSE, error_category |-> None]}
    \cup {[raised |-> FALSE, correct |-> c, error_category |-> e] :
            c \in BOOLEAN, e \in {None, Some("wrong_word_actual")}}

Outcomes ==
    [llm : LlmReplies, judge : JudgeOutcomes, hint_ok : BOOLEAN]

\* the outcome record of an event that makes no external call
NoCalls ==
    [llm |-> "skipped",
     judge |-> [raised |-> TRUE, correct |-> FALSE, error_category |-> None],
     hint_ok |-> TRUE]

HasHintKeyword(text) == text = "a hint please"
HasDontKnowKeyword(text) == text = "i don't know"

\* detect_user_intent_with_llm without the check of the reply against the
\* list of intents
detect_user_intent_with_llm_unchecked(llm) ==
    IF llm = "raise" THEN "answer_attempt" ELSE llm

detect_user_intent_with_llm(llm) ==
    IF llm = "raise" THEN "answer_attempt"
    ELSE IF llm \in {"hint_request", "dont_know", "answer_attempt"} THEN llm
    ELSE "answer_attempt"

detect_user_intent(text, llm) ==
    IF text = "" THEN "answer_attempt"
    ELSE IF HasHintKeyword(text) THEN "hint_request"
    ELSE IF HasDontKnowKeyword(text) THEN "dont_know"
    ELSE IF llm # "skipped" THEN detect_user_intent_with_llm(llm)
    ELSE "answer_attempt"

\* evaluate_response that passes the judge's pair on as it is
evaluate_response_as_returned(judge, attempt_number) ==
    [correct |-> judge.correct,
     error_category |-> judge.error_category,
     attempt_number |-> attempt_number]

\* evaluate_response: the verdict built from the judge's structured output
evaluate_response(judge, attempt_number) ==
    [correct |-> IF judge.error_category # None THEN FALSE ELSE judge.correct,
     error_category |-> judge.error_category,
     attempt_number |-> attempt_number]

\* a fallback verdict that accepts the answer when the judge call raises
judge_fallback_accepts(attempt_number) ==
    [correct |-> TRUE, error_category |-> None, attempt_number |-> attempt_number]

\* the EvaluationResult evaluate_node builds when the judge call raises
judge_fallback(attempt_number) ==
    [correct |-> FALSE, error_category |-> None, attempt_number |-> attempt_number]

PyBool(b) == IF b THEN "True" ELSE "False"

---------------------------------------------------------------------------
(* lesson_graph.py: the nodes.  A LessonState is a record; besides the     *)
(* keys of the code it carries what the node wrote to the WebSocket (sent),*)
(* whether the node raised (raised), and which branch ran (branch, attempt)*)

objects_of(s) == s.plan[1]

prompt_user_node(s) ==
    IF s.plan = None THEN [s EXCEPT !.lesson_state = "AWAIT_RESPONSE"]
    ELSE LET next_idx == get_next_object_index(objects_of(s), s.completed_objects)
         IN  IF next_idx < 0 \/ next_idx >= Len(objects_of(s))
             THEN [s EXCEPT !.lesson_state = "AWAIT_RESPONSE"]
             ELSE [s EXCEPT !.current_object_index = next_idx,
                            !.sent = Append(@, Msg("prompt_next", next_idx, None)),
                            !.lesson_state = "AWAIT_RESPONSE"]

\* the turn after the answer was given, counted as an attempt on the item
repeat_branch_counts_attempt(s) ==
    [s EXCEPT !.completed_objects = Append(@, <<s.current_object_index, "False">>),
              !.item_attempts = Put(@, s.current_object_index,
                                    Get(@, s.current_object_index, 0) + 1),
              !.waiting_for_repeat = FALSE,
              !.lesson_state = "FEEDBACK",
              !.pending_transcription = None,
              !.pending_image = None,
              !.branch = "repeat"]

\* the turn after the answer was given, with the item left open
repeat_branch_open(s) ==
    [s EXCEPT !.waiting_for_repeat = FALSE,
              !.lesson_state = "FEEDBACK",
              !.pending_transcription = None,
              !.pending_image = None,
              !.branch = "repeat"]

\* if waiting_for_repeat: the turn after the answer was given
repeat_branch(s) ==
    [s EXCEPT !.completed_objects = Append(@, <<s.current_object_index, "False">>),
              !.waiting_for_repeat = FALSE,
              !.lesson_state = "FEEDBACK",
              !.pending_transcription = None,
              !.pending_image = None,
              !.branch = "repeat"]

\* the fallback hint text reads target_name[0]
fallback_hint_raises(s) == objects_of(s)[s.current_object_index + 1] = ""

\* hint_branch without the check of the hints already used
hint_branch_unchecked(s, ext) ==
    LET idx == s.current_object_index
        hint_number == Get(s.item_hints_used, idx, 0) + 1
    IN  [s EXCEPT !.item_hints_used = Put(@, idx, hint_number),
                  !.sent = Append(@, Msg("hint", idx, Some(<<"hint", hint_number>>))),
                  !.lesson_state = "AWAIT_RESPONSE",
                  !.pending_transcription = None,
                  !.pending_image = None,
                  !.branch = "hint"]

\* hint_branch whose refusal (no hints left) is counted as a give-up
hint_branch_refusal_counts(s, ext) ==
    LET idx == s.current_object_index
        hints_used == Get(s.item_hints_used, idx, 0)
    IN  IF hints_used >= max_hints
        THEN [s EXCEPT !.item_gave_up = Put(@, idx, Get(@, idx, 0) + 1),
                       !.sent = Append(@, Msg("hint", idx, Some(<<"no hints left">>))),
                       !.lesson_state = "AWAIT_RESPONSE",
                       !.pending_transcription = None,
                       !.pending_image = None,
                       !.branch = "hint"]
        ELSE hint_branch_unchecked(s, ext)

\* if intent == "hint_request"
hint_branch(s, ext) ==
    LET idx == s.current_object_index
        hints_used == Get(s.item_hints_used, idx, 0)
        hint_number == hints_used + 1
        done(hints, text) ==
            [s EXCEPT !.item_hints_used = hints,
                      !.sent = Append(@, Msg("hint", idx, Some(text))),
                      !.lesson_state = "AWAIT_RESPONSE",
                      !.pending_transcription = None,
                      !.pending_image = None,
                      !.branch = "hint"]
    IN  IF hints_used >= max_hints THEN done(s.item_hints_used, <<"no hints left">>)
        ELSE IF ext.hint_ok
             THEN done(Put(s.item_hints_used, idx, hint_number), <<"hint", hint_number>>)
        ELSE IF fallback_hint_raises(s) THEN [s EXCEPT !.raised = TRUE]
        ELSE done(Put(s.item_hints_used, idx, hint_number), <<"hint", hint_number>>)

\* if intent == "dont_know"
dont_know_branch(s, ext) ==
    LET idx == s.current_object_index
        gave_up_count == Get(s.item_gave_up, idx, 0)
        hints_used == Get(s.item_hints_used, idx, 0)
        first ==
            [s EXCEPT !.item_gave_up = Put(@, idx, 1),
                      !.item_hints_used = Put(@, idx, 1),
                      !.sent = Append(@, Msg("hint", idx, Some(<<"hint", 1, "ask again">>))),
                      !.lesson_state = "AWAIT_RESPONSE",
                      !.pending_transcription = None,
                      !.pending_image = None,
                      !.branch = "first_dont_know"]
    IN  IF hints_used > 0 \/ gave_up_count >= 1
        THEN [s EXCEPT !.item_gave_up = Put(@, idx, gave_up_count + 1),
                       !.sent = Append(@, Msg("answer_given", idx, None)),
                       !.waiting_for_repeat = TRUE,
                       !.lesson_state = "AWAIT_RESPONSE",
                       !.pending_transcription = None,
                       !.pending_image = None,
                       !.branch = "reveal"]
        ELSE IF ext.hint_ok THEN first
        ELSE IF fallback_hint_raises(s) THEN [s EXCEPT !.raised = TRUE]
        ELSE first

\* if intent == "no_object"
no_object_branch(s) ==
    LET idx == s.current_object_index
    IN  [s EXCEPT !.item_skipped = Put(@, idx, TRUE),
                  !.sent = Append(@, Msg("object_skipped", idx, None)),
                  !.completed_objects = Append(@, <<idx, "None">>),
                  !.lesson_state = "FEEDBACK",
                  !.pending_transcription = None,
                  !.pending_image = None,
                  !.branch = "skip"]

\* finalizes without the look at the verdict and the attempt number
finalizes_on_any_verdict(correct, current_attempt) == TRUE

\* finalizes with the attempt bound off by one
finalizes_after_max(correct, current_attempt) ==
    correct \/ current_attempt > max_attempts

\* if eval_result.correct or current_attempt >= max_attempts
finalizes(correct, current_attempt) == correct \/ current_attempt >= max_attempts

\* normal evaluation flow (answer_attempt intent)
answer_branch(s, ext) ==
    LET idx == s.current_object_index
        current_attempt == Get(s.item_attempts, idx, 0) + 1
        eval_result == IF ext.judge.raised THEN judge_fallback(current_attempt)
                       ELSE evaluate_response(ext.judge, current_attempt)
        t == [s EXCEPT !.item_attempts = Put(@, idx, current_attempt),
                       !.sent = Append(@, Msg("evaluation_result", idx, Some(eval_result))),
                       !.evaluation_result = Some(eval_result),
                       !.pending_transcription = None,
                       !.pending_image = None,
                       !.branch = "evaluation",
                       !.attempt = current_attempt]
    IN  IF finalizes(eval_result.correct, current_attempt)
        THEN [t EXCEPT !.completed_objects =
                            Append(WithoutIndex(s.completed_objects, idx),
                                   <<idx, PyBool(eval_result.correct)>>),
                       !.waiting_for_repeat = FALSE,
                       !.lesson_state = "FEEDBACK"]
        ELSE [t EXCEPT !.lesson_state = "AWAIT_RESPONSE"]

\* evaluate_node whose guards count the rejected turn as an attempt
evaluate_node_counts_guard(s, ext) ==
    LET idx == s.current_object_index
        guard == [s EXCEPT !.lesson_state = "FEEDBACK", !.branch = "guard",
                           !.item_attempts = Put(@, idx, Get(@, idx, 0) + 1)]
    IN  IF s.plan = None \/ idx < 0 THEN guard
        ELSE IF s.pending_transcription = None \/ s.pending_image = None THEN guard
        ELSE IF idx >= Len(objects_of(s)) THEN guard
        ELSE IF s.waiting_for_repeat THEN repeat_branch(s)
        ELSE LET intent == detect_user_intent(s.pending_transcription[1].text, ext.llm)
             IN  CASE intent = "hint_request" -> hint_branch(s, ext)
                   [] intent = "dont_know" -> dont_know_branch(s, ext)
                   [] intent = "no_object" -> no_object_branch(s)
                   [] OTHER -> answer_branch(s, ext)

evaluate_node(s, ext) ==
    LET idx == s.current_object_index
        guard == [s EXCEPT !.lesson_state = "FEEDBACK", !.branch = "guard"]
    IN  IF s.plan = None \/ idx < 0 THEN guard
        ELSE IF s.pending_transcription = None \/ s.pending_image = None THEN guard
        ELSE IF idx >= Len(objects_of(s)) THEN guard
        ELSE IF s.waiting_for_repeat THEN repeat_branch(s)
        ELSE LET intent == detect_user_intent(s.pending_transcription[1].text, ext.llm)
             IN  CASE intent = "hint_request" -> hint_branch(s, ext)
                   [] intent = "dont_know" -> dont_know_branch(s, ext)
                   [] intent = "no_object" -> no_object_branch(s)
                   [] OTHER -> answer_branch(s, ext)

\* feedback_node that goes to PROMPT_USER also when the current item is open
feedback_node_reprompts(s) ==
    IF s.plan = None THEN [s EXCEPT !.lesson_state = "COMPLETE"]
    ELSE LET completed_indices == CompletedIndices(s.completed_objects)
             next_idx == get_next_object_index(objects_of(s), s.completed_objects)
             summary == fallback_summary(s.completed_objects)
         IN  IF next_idx < 0 \/ Cardinality(completed_indices) >= Len(objects_of(s))
             THEN [s EXCEPT !.sent = Append(@, Msg("lesson_complete", -1, Some(summary))),
                            !.lesson_state = "COMPLETE",
                            !.lesson_completed = TRUE]
             ELSE [s EXCEPT !.lesson_state = "PROMPT_USER"]

\* feedback_node that completes the lesson as soon as one item has an outcome
feedback_node_first_outcome(s) ==
    IF s.plan = None THEN [s EXCEPT !.lesson_state = "COMPLETE"]
    ELSE LET completed_indices == CompletedIndices(s.completed_objects)
             summary == fallback_summary(s.completed_objects)
         IN  IF Cardinality(completed_indices) >= 1
             THEN [s EXCEPT !.sent = Append(@, Msg("lesson_complete", -1, Some(summary))),
                            !.lesson_state = "COMPLETE",
                            !.lesson_completed = TRUE]
             ELSE [s EXCEPT !.lesson_state = "AWAIT_RESPONSE"]

\* The node calls generate_summary with seven positional arguments (the last
\* is item_skipped); generate_summary takes six, so the call raises TypeError
\* and the except branch builds the summary.
feedback_node(s) ==
    IF s.plan = None THEN [s EXCEPT !.lesson_state = "COMPLETE"]
    ELSE LET completed_indices == CompletedIndices(s.completed_objects)
             next_idx == get_next_object_index(objects_of(s), s.completed_objects)
             summary == fallback_summary(s.completed_objects)
         IN  IF next_idx < 0 \/ Cardinality(completed_indices) >= Len(objects_of(s))
             THEN [s EXCEPT !.sent = Append(@, Msg("lesson_complete", -1, Some(summary))),
                            !.lesson_state = "COMPLETE",
                            !.lesson_completed = TRUE]
             ELSE IF s.current_object_index \notin completed_indices
                  THEN [s EXCEPT !.lesson_state = "AWAIT_RESPONSE"]
                  ELSE [s EXCEPT !.lesson_state = "PROMPT_USER"]

\* invoke_lesson_graph(state, ws, entry_node="evaluate")
invoke_evaluate(s, ext) ==
    LET e == evaluate_node(s, ext)
        f == feedback_node(e)
    IN  IF e.raised THEN [s EXCEPT !.lesson_state = "FEEDBACK", !.error = TRUE]
        ELSE IF f.lesson_state = "PROMPT_USER" THEN prompt_user_node(f)
        ELSE f

\* invoke_lesson_graph(state, ws, entry_node="prompt_user"): the compiled graph,
\* prompt_user -> await_response -> end
invoke_prompt_user(s) == prompt_user_node(s)

---------------------------------------------------------------------------
(* base.py: SessionState and the conversions to and from LessonState *)

\* the SessionState of the connection, as a record
Session ==
    [plan |-> plan,
     current_object_index |-> current_object_index,
     completed_objects |-> completed_objects,
     item_attempts |-> item_attempts,
     item_hints_used |-> item_hints_used,
     item_gave_up |-> item_gave_up,
     waiting_for_repeat |-> waiting_for_repeat,
     lesson_saved |-> lesson_saved,
     pending_transcription |-> pending_transcription,
     pending_image |-> pending_image]

\* SessionState.__init__
NewSession ==
    [plan |-> None,
     current_object_index |-> -1,
     completed_objects |-> <<>>,
     item_attempts |-> EmptyDict,
     item_hints_used |-> EmptyDict,
     item_gave_up |-> EmptyDict,
     waiting_for_repeat |-> FALSE,
     lesson_saved |-> FALSE,
     pending_transcription |-> None,
     pending_image |-> None]

\* item_skipped is no key of the dict built here: the nodes read it with the
\* default {}
session_state_to_lesson_state(ss) ==
    [plan |-> ss.plan,
     current_object_index |-> ss.current_object_index,
     completed_objects |-> ss.completed_objects,
     item_attempts |-> ss.item_attempts,
     item_hints_used |-> ss.item_hints_used,
     item_gave_up |-> ss.item_gave_up,
     item_skipped |-> EmptyDict,
     waiting_for_repeat |-> ss.waiting_for_repeat,
     lesson_state |-> "PROMPT_USER",
     lesson_completed |-> ss.lesson_saved,
     pending_transcription |-> ss.pending_transcription,
     pending_image |-> ss.pending_image,
     evaluation_result |-> None,
     sent |-> <<>>,
     raised |-> FALSE,
     error |-> FALSE,
     branch |-> "none",
     attempt |-> 0]

lesson_state_to_session_state(ls, ss) ==
    [ss EXCEPT !.plan = ls.plan,
               !.current_object_index = ls.current_object_index,
               !.completed_objects = ls.completed_objects,
               !.item_attempts = ls.item_attempts,
               !.item_hints_used = ls.item_hints_used,
               !.item_gave_up = ls.item_gave_up,
               !.waiting_for_repeat = ls.waiting_for_repeat,
               !.lesson_saved = ls.lesson_completed,
               !.pending_transcription = ls.pending_transcription,
               !.pending_image = ls.pending_image]

---------------------------------------------------------------------------
(* base.py: ws_stream.  A handler maps the session and the event to the    *)
(* result of the event: the session afterwards, the lesson_state of the    *)
(* graph run (if one ran), the messages sent and the record of the event.  *)

Result(ss, ls_state, msgs, t) ==
    [session |-> ss, lesson_state |-> ls_state, sent |-> msgs, turn |-> t]

\* the record of an event: whether it handed a pair to the graph (fired), the
\* branch of evaluate_node that ran, the item and attempt number it ran on, the
\* pair handed over, the event (id, body) the handler accepted, and the pending
\* event (id, body) of the same kind that it overwrote
Turn(event, fired, branch, item, attempt, pair, arrived) ==
    [event |-> event, fired |-> fired, branch |-> branch, item |-> item,
     attempt |-> attempt, pair |-> pair, arrived |-> arrived, discarded |-> None]

Quiet(event) == Turn(event, FALSE, "none", -1, 0, None, None)

\* the result r of a handler that assigned a pending slot which held slot before
Overwrote(r, slot) == [r EXCEPT !.turn.discarded = slot]

\* an accepted event that was stored and handed nothing to the graph
Stored(event, id, body) ==
    Turn(event, FALSE, "none", -1, 0, None, Some([id |-> id, body |-> body]))

\* process_pair that counts a hint for the item when the graph reported an
\* error, and updates the session from the result otherwise
process_pair_keeps_partial(ss, event, transcription, image, first_msgs, ext) ==
    LET ls == [session_state_to_lesson_state(ss) EXCEPT
                   !.pending_transcription = Some(transcription),
                   !.pending_image = Some(image),
                   !.lesson_state = "EVALUATE"]
        updated == invoke_evaluate(ls, ext)
        idx == ss.current_object_index
        pair == Some([transcription |-> transcription, image |-> image])
        arrived == IF event = "audio_end"
                   THEN Some([id |-> transcription.id, body |-> transcription.text])
                   ELSE Some([id |-> image.id, body |-> image.data_url])
    IN  IF updated.error
        THEN Result([ss EXCEPT !.item_hints_used = Put(@, idx, Get(@, idx, 0) + 1)],
                    updated.lesson_state, Append(first_msgs, Status("error")),
                    Turn(event, TRUE, "error", idx, 0, pair, arrived))
        ELSE Result([lesson_state_to_session_state(updated, ss) EXCEPT
                         !.pending_transcription = None,
                         !.pending_image = None],
                    updated.lesson_state, first_msgs \o updated.sent,
                    Turn(event, TRUE, updated.branch, idx,
                         updated.attempt, pair, arrived))

\* the transcription and the image are handed to the graph at the evaluate node,
\* and the session is updated from the result unless the graph reported an error
process_pair(ss, event, transcription, image, first_msgs, ext) ==
    LET ls == [session_state_to_lesson_state(ss) EXCEPT
                   !.pending_transcription = Some(transcription),
                   !.pending_image = Some(image),
                   !.lesson_state = "EVALUATE"]
        updated == invoke_evaluate(ls, ext)
        pair == Some([transcription |-> transcription, image |-> image])
        arrived == IF event = "audio_end"
                   THEN Some([id |-> transcription.id, body |-> transcription.text])
                   ELSE Some([id |-> image.id, body |-> image.data_url])
    IN  IF updated.error
        THEN Result(ss, updated.lesson_state, Append(first_msgs, Status("error")),
                    Turn(event, TRUE, "error", ss.current_object_index, 0, pair, arrived))
        ELSE Result([lesson_state_to_session_state(updated, ss) EXCEPT
                         !.pending_transcription = None,
                         !.pending_image = None],
                    updated.lesson_state, first_msgs \o updated.sent,
                    Turn(event, TRUE, updated.branch, ss.current_object_index,
                         updated.attempt, pair, arrived))

\* audio_end without the comparison of the utterance ids
audio_end_any_image(ss, ls_state, utterance_id, text, transcribed, ext) ==
    IF ss.lesson_saved THEN Result(ss, ls_state, <<Status("warn")>>, Quiet("audio_end"))
    ELSE IF ~transcribed THEN Result(ss, ls_state, <<Status("error")>>, Quiet("audio_end"))
    ELSE LET transcription == [id |-> utterance_id, text |-> text]
             stored == [ss EXCEPT !.pending_transcription = Some(transcription)]
             asr == <<Msg("asr_final", -1, None)>>
             before == IF ss.pending_transcription = None THEN None
                       ELSE Some([id |-> ss.pending_transcription[1].id,
                                  body |-> ss.pending_transcription[1].text])
         IN  IF ss.pending_image # None
             THEN Overwrote(process_pair(stored, "audio_end", transcription,
                                         ss.pending_image[1], asr, ext), before)
             ELSE Overwrote(Result(stored, ls_state, asr,
                                   Stored("audio_end", utterance_id, text)), before)

\* audio_end that keeps a transcription already pending
audio_end_first_wins(ss, ls_state, utterance_id, text, transcribed, ext) ==
    IF ss.lesson_saved THEN Result(ss, ls_state, <<Status("warn")>>, Quiet("audio_end"))
    ELSE IF ~transcribed THEN Result(ss, ls_state, <<Status("error")>>, Quiet("audio_end"))
    ELSE LET transcription == IF ss.pending_transcription # None
                              THEN ss.pending_transcription[1]
                              ELSE [id |-> utterance_id, text |-> text]
             stored == [ss EXCEPT !.pending_transcription = Some(transcription)]
             asr == <<Msg("asr_final", -1, None)>>
         IN  IF ss.pending_image # None /\ ss.pending_image[1].id = transcription.id
             THEN process_pair(stored, "audio_end", transcription, ss.pending_image[1],
                               asr, ext)
             ELSE Result(stored, ls_state, asr, Stored("audio_end", utterance_id, text))

\* elif msg_type == "audio_end" (with audio buffered); transcribed is FALSE when
\* transcribe_audio_bytes raises HTTPException
audio_end(ss, ls_state, utterance_id, text, transcribed, ext) ==
    IF ss.lesson_saved THEN Result(ss, ls_state, <<Status("warn")>>, Quiet("audio_end"))
    ELSE IF ~transcribed THEN Result(ss, ls_state, <<Status("error")>>, Quiet("audio_end"))
    ELSE LET transcription == [id |-> utterance_id, text |-> text]
             stored == [ss EXCEPT !.pending_transcription = Some(transcription)]
             asr == <<Msg("asr_final", -1, None)>>
             before == IF ss.pending_transcription = None THEN None
                       ELSE Some([id |-> ss.pending_transcription[1].id,
                                  body |-> ss.pending_transcription[1].text])
         IN  IF ss.pending_image # None /\ ss.pending_image[1].id = utterance_id
             THEN Overwrote(process_pair(stored, "audio_end", transcription,
                                         ss.pending_image[1], asr, ext), before)
             ELSE Overwrote(Result(stored, ls_state, asr,
                                   Stored("audio_end", utterance_id, text)), before)

\* the plan branch of the image handler; generated is None when
\* generate_plan_from_data_url raises HTTPException
plan_image(ss, ls_state, generated) ==
    IF generated = None THEN Result(ss, ls_state, <<Status("error")>>, Quiet("image"))
    ELSE LET fresh == [ss EXCEPT !.plan = generated,
                                 !.current_object_index = -1,
                                 !.completed_objects = <<>>]
             ls == [session_state_to_lesson_state(fresh) EXCEPT
                        !.lesson_state = "PROMPT_USER"]
             updated == invoke_prompt_user(ls)
         IN  Result(lesson_state_to_session_state(updated, fresh), updated.lesson_state,
                    <<Msg("plan", -1, generated)>> \o updated.sent,
                    Quiet("plan"))

\* the image handler without the look at lesson_saved
image_event_unchecked(ss, ls_state, utterance_id, data_url, generated, ext) ==
    IF utterance_id = None \/ ss.plan = None THEN plan_image(ss, ls_state, generated)
    ELSE LET image == [id |-> utterance_id[1], data_url |-> data_url]
             stored == [ss EXCEPT !.pending_image = Some(image)]
         IN  IF ss.pending_transcription # None
                /\ ss.pending_transcription[1].id = utterance_id[1]
             THEN process_pair(stored, "image", ss.pending_transcription[1],
                               image, <<>>, ext)
             ELSE Result(stored, ls_state, <<>>,
                         Stored("image", utterance_id[1], data_url))

\* the image handler that stores a response image and never looks for the
\* transcription
image_event_store_only(ss, ls_state, utterance_id, data_url, generated, ext) ==
    IF ss.lesson_saved THEN Result(ss, ls_state, <<Status("warn")>>, Quiet("image"))
    ELSE IF utterance_id = None \/ ss.plan = None THEN plan_image(ss, ls_state, generated)
    ELSE Result([ss EXCEPT !.pending_image =
                               Some([id |-> utterance_id[1], data_url |-> data_url])],
                ls_state, <<>>, Stored("image", utterance_id[1], data_url))

\* elif msg_type == "image" (with a data_url); utterance_id is None when the
\* payload carries none
image_event(ss, ls_state, utterance_id, data_url, generated, ext) ==
    IF ss.lesson_saved THEN Result(ss, ls_state, <<Status("warn")>>, Quiet("image"))
    ELSE IF utterance_id = None \/ ss.plan = None THEN plan_image(ss, ls_state, generated)
    ELSE LET image == [id |-> utterance_id[1], data_url |-> data_url]
             stored == [ss EXCEPT !.pending_image = Some(image)]
             before == IF ss.pending_image = None THEN None
                       ELSE Some([id |-> ss.pending_image[1].id,
                                  body |-> ss.pending_image[1].data_url])
         IN  IF ss.pending_transcription # None
                /\ ss.pending_transcription[1].id = utterance_id[1]
             THEN Overwrote(process_pair(stored, "image", ss.pending_transcription[1],
                                         image, <<>>, ext), before)
             ELSE Overwrote(Result(stored, ls_state, <<>>,
                                   Stored("image", utterance_id[1], data_url)), before)

\* end_session that sends the summary and does not mark the lesson completed
end_session_unsaved(ss, ls_state) ==
    LET summary == generate_summary(ss.plan[1], ss.completed_objects, ss.item_attempts,
                                    ss.item_hints_used, ss.item_gave_up)
        msgs == IF ss.plan # None THEN <<Msg("lesson_complete", -1, Some(summary))>>
                ELSE <<>>
    IN  Result([ss EXCEPT !.plan = None,
                          !.current_object_index = -1,
                          !.completed_objects = <<>>,
                          !.pending_transcription = None,
                          !.pending_image = None],
               ls_state, Append(msgs, Status("ok")), Quiet("end_session"))

\* action == "end_session"
end_session(ss, ls_state) ==
    LET summary == generate_summary(ss.plan[1], ss.completed_objects, ss.item_attempts,
                                    ss.item_hints_used, ss.item_gave_up)
        finalized == IF ss.plan # None THEN [ss EXCEPT !.lesson_saved = TRUE] ELSE ss
        msgs == IF ss.plan # None THEN <<Msg("lesson_complete", -1, Some(summary))>>
                ELSE <<>>
    IN  Result([finalized EXCEPT !.plan = None,
                                 !.current_object_index = -1,
                                 !.completed_objects = <<>>,
                                 !.pending_transcription = None,
                                 !.pending_image = None],
               ls_state, Append(msgs, Status("ok")), Quiet("end_session"))

\* action == "reset_lesson"
reset_lesson(ss, ls_state) ==
    Result([ss EXCEPT !.plan = None,
                      !.current_object_index = -1,
                      !.completed_objects = <<>>,
                      !.pending_transcription = None,
                      !.pending_image = None,
                      !.lesson_saved = FALSE],
           ls_state, <<Status("ok")>>, Quiet("reset_lesson"))

---------------------------------------------------------------------------
(* The connection as a state machine: one action per inbound event *)

Init ==
    /\ plan = NewSession.plan
    /\ current_object_index = NewSession.current_object_index
    /\ completed_objects = NewSession.completed_objects
    /\ item_attempts = NewSession.item_attempts
    /\ item_hints_used = NewSession.item_hints_used
    /\ item_gave_up = NewSession.item_gave_up
    /\ waiting_for_repeat = NewSession.waiting_for_repeat
    /\ lesson_saved = NewSession.lesson_saved
    /\ pending_transcription = NewSession.pending_transcription
    /\ pending_image = NewSession.pending_image
    /\ lesson_state = "PROMPT_USER"
    /\ sent = <<Status("ok")>>
    /\ turn = Quiet("connect")
    /\ items_generated = 0

Apply(r) ==
    /\ plan' = r.session.plan
    /\ current_object_index' = r.session.current_object_index
    /\ completed_objects' = r.session.completed_objects
    /\ item_attempts' = r.session.item_attempts
    /\ item_hints_used' = r.session.item_hints_used
    /\ item_gave_up' = r.session.item_gave_up
    /\ waiting_for_repeat' = r.session.waiting_for_repeat
    /\ lesson_saved' = r.session.lesson_saved
    /\ pending_transcription' = r.session.pending_transcription
    /\ pending_image' = r.session.pending_image
    /\ lesson_state' = r.lesson_state
    /\ sent' = r.sent
    /\ turn' = r.turn

\* the external outcomes that the turn on this transcript can depend on
OutcomesFor(ss, text) ==
    LET keyword == HasHintKeyword(text) \/ HasDontKnowKeyword(text)
        asked == ~ss.waiting_for_repeat
    IN  {o \in Outcomes :
            /\ (keyword \/ ~asked) => o.llm = NoCalls.llm
            /\ (~asked \/ detect_user_intent(text, o.llm) # "answer_attempt")
                  => o.judge = NoCalls.judge
            /\ (~asked \/ detect_user_intent(text, o.llm) = "answer_attempt")
                  => o.hint_ok = NoCalls.hint_ok}

\* an audio_end event: its utterance_id, what the audio transcribes to
AudioEnd(tokens, texts) ==
    \E utterance_id \in tokens, text \in texts, transcribed \in BOOLEAN :
        /\ UNCHANGED items_generated
        /\ \E ext \in (IF transcribed /\ ~lesson_saved /\ pending_image # None
                          /\ pending_image[1].id = utterance_id
                       THEN OutcomesFor(Session, text) ELSE {NoCalls}) :
               Apply(audio_end(Session, lesson_state, utterance_id, text, transcribed, ext))

\* an image event that reaches the plan generator (no utterance_id, or no plan yet)
PlanImage(tokens, plans) ==
    \E utterance_id \in {None} \cup {Some(t) : t \in tokens},
       generated \in {None} \cup {Some(p) : p \in plans} :
        /\ utterance_id = None \/ plan = None
        /\ generated # None => items_generated + Len(generated[1]) <= MaxItems
        /\ items_generated' = IF generated # None /\ ~lesson_saved
                              THEN items_generated + Len(generated[1])
                              ELSE items_generated
        /\ Apply(image_event(Session, lesson_state, utterance_id, "imgA", generated, NoCalls))

\* an image event that answers a prompt (utterance_id given, plan present)
ResponseImage(tokens, images) ==
    \E token \in tokens, data_url \in images :
        /\ plan # None
        /\ UNCHANGED items_generated
        /\ \E ext \in (IF ~lesson_saved /\ pending_transcription # None
                          /\ pending_transcription[1].id = token
                       THEN OutcomesFor(Session, pending_transcription[1].text)
                       ELSE {NoCalls}) :
               Apply(image_event(Session, lesson_state, Some(token), data_url, None, ext))

EndSession == Apply(end_session(Session, lesson_state)) /\ UNCHANGED items_generated

ResetLesson == Apply(reset_lesson(Session, lesson_state)) /\ UNCHANGED items_generated

---------------------------------------------------------------------------
(* Spec: the lesson flow.  Every event of the learner carries the same     *)
(* correlation token and the plan objects have a target word.              *)

\* a plan that generate_plan_from_data_url returns is plan.objects, as the
\* sequence of the objects' target_name
FlowTokens == {"T1"}
FlowImages == {"imgA"}
FlowPlans == SeqsUpTo({"word"}, MaxItems)

Next ==
    \/ AudioEnd(FlowTokens, Texts)
    \/ PlanImage(FlowTokens, FlowPlans)
    \/ ResponseImage(FlowTokens, FlowImages)
    \/ EndSession
    \/ ResetLesson

Spec == Init /\ [][Next]_vars

(* SpecPairing: the correlation of transcripts and images.  Two tokens, two *)
(* images, plans of at most one object, whose target word may be empty.     *)

PairPlans == SeqsUpTo(TargetNames, 1)

NextPairing ==
    \/ AudioEnd(Tokens, Texts)
    \/ PlanImage(Tokens, PairPlans)
    \/ ResponseImage(Tokens, Images)
    \/ EndSession
    \/ ResetLesson

SpecPairing == Init /\ [][NextPairing]_vars

(* SpecSkip: the lesson flow in which the learner answers every prompt with *)
(* the sentence the introduction tells them to use when they do not have    *)
(* the object.                                                              *)

\* "If you don't have the object, say 'I don't have that'", lowercased
SkipTexts == {"i don't have that"}

NextSkip ==
    \/ AudioEnd(FlowTokens, SkipTexts)
    \/ PlanImage(FlowTokens, FlowPlans)
    \/ ResponseImage(FlowTokens, FlowImages)
    \/ EndSession
    \/ ResetLesson

SpecSkip == Init /\ [][NextSkip]_vars

(* SpecReplay: evaluate_node run on an item that already has an outcome.    *)
(* The initial states are the sessions in which the current item is in       *)
(* completed_objects; the one action hands a matched pair to evaluate_node.  *)
(* ws_stream itself never does so (C4): this is evaluate_node as a function. *)

ReplayPlans == SeqsUpTo({"word"}, MaxItems) \ {<<>>}

\* the outcome marks of completed_objects: correct, incorrect, skipped
OutcomeMarks == {"True", "False", "None"}

\* the lists of (index, outcome) over the items of a plan of n objects, one
\* record per index at most
CompletedLists(n) ==
    {c \in SeqsUpTo((0 .. n - 1) \X OutcomeMarks, n) :
        \A j, k \in DOMAIN c : c[j][1] = c[k][1] => j = k}

ReplaySessions ==
    {[NewSession EXCEPT !.plan = Some(p),
                        !.current_object_index = i,
                        !.completed_objects = c,
                        !.item_attempts = (i :> a),
                        !.waiting_for_repeat = w] :
        p \in ReplayPlans, i \in 0 .. MaxItems - 1, c \in CompletedLists(MaxItems),
        a \in 1 .. max_attempts, w \in BOOLEAN}

InitReplay ==
    \E ss \in ReplaySessions :
        /\ ss.current_object_index < Len(ss.plan[1])
        /\ CompletedIndices(ss.completed_objects) \subseteq 0 .. Len(ss.plan[1]) - 1
        /\ ss.current_object_index \in CompletedIndices(ss.completed_objects)
        /\ plan = ss.plan
        /\ current_object_index = ss.current_object_index
        /\ completed_objects = ss.completed_objects
        /\ item_attempts = ss.item_attempts
        /\ item_hints_used = ss.item_hints_used
        /\ item_gave_up = ss.item_gave_up
        /\ waiting_for_repeat = ss.waiting_for_repeat
        /\ lesson_saved = ss.lesson_saved
        /\ pending_transcription = ss.pending_transcription
        /\ pending_image = ss.pending_image
        /\ lesson_state = "FEEDBACK"
        /\ sent = <<>>
        /\ turn = Quiet("finalized")
        /\ items_generated = Len(ss.plan[1])

\* evaluate_node on the session as it is, with a matched pair
replay(ss, text, ext) ==
    LET transcription == [id |-> "T1", text |-> text]
        image == [id |-> "T1", data_url |-> "imgA"]
        ls == [session_state_to_lesson_state(ss) EXCEPT
                   !.pending_transcription = Some(transcription),
                   !.pending_image = Some(image),
                   !.lesson_state = "EVALUATE"]
        updated == evaluate_node(ls, ext)
    IN  Result(lesson_state_to_session_state(updated, ss), updated.lesson_state,
               updated.sent,
               Turn("replay", TRUE, updated.branch, ss.current_object_index,
                    updated.attempt,
                    Some([transcription |-> transcription, image |-> image]), None))

\* one replay of each initial session
Replay ==
    \E text \in Texts :
        /\ turn.event = "finalized"
        /\ UNCHANGED items_generated
        /\ \E ext \in OutcomesFor(Session, text) : Apply(replay(Session, text, ext))

NextReplay == Replay

SpecReplay == InitReplay /\ [][NextReplay]_vars

(* SpecSummary: the two places that build a summary, end_session and       *)
(* feedback_node, run on sessions whose completed_objects may hold the skip *)
(* marker.  ws_stream never records that marker (no turn reaches the skip   *)
(* branch): these are the summary builders as functions of the session.     *)

InitSummary ==
    \E ss \in ReplaySessions :
        /\ ss.current_object_index < Len(ss.plan[1])
        /\ CompletedIndices(ss.completed_objects) \subseteq 0 .. Len(ss.plan[1]) - 1
        /\ ~ss.waiting_for_repeat
        /\ plan = ss.plan
        /\ current_object_index = ss.current_object_index
        /\ completed_objects = ss.completed_objects
        /\ item_attempts = ss.item_attempts
        /\ item_hints_used = ss.item_hints_used
        /\ item_gave_up = ss.item_gave_up
        /\ waiting_for_repeat = ss.waiting_for_repeat
        /\ lesson_saved = ss.lesson_saved
        /\ pending_transcription = ss.pending_transcription
        /\ pending_image = ss.pending_image
        /\ lesson_state = "FEEDBACK"
        /\ sent = <<>>
        /\ turn = Quiet("finalized")
        /\ items_generated = Len(ss.plan[1])

\* feedback_node on the session as it is
feedback(ss) ==
    LET ls == [session_state_to_lesson_state(ss) EXCEPT !.lesson_state = "FEEDBACK"]
        updated == feedback_node(ls)
    IN  Result(lesson_state_to_session_state(updated, ss), updated.lesson_state,
               updated.sent, Quiet("feedback"))

\* feedback_node once on each initial session
Feedback ==
    /\ turn.event = "finalized"
    /\ UNCHANGED items_generated
    /\ Apply(feedback(Session))

NextSummary ==
    \/ Feedback
    \/ EndSession

SpecSummary == InitSummary /\ [][NextSummary]_vars

(* SpecPlanFailure: the lesson flow in which the plan generator can also    *)
(* fail with an exception that is no HTTPException (the LLM call or the     *)
(* parsing of its structured output).                                       *)

\* the plan branch of the image handler when generate_plan_from_data_url
\* raises an exception other than HTTPException: no handler catches it, it
\* leaves the receive loop and the finally clause closes the WebSocket
plan_image_raises(ss, ls_state) == Result(ss, ls_state, <<>>, Quiet("closed"))

\* an image event that reaches the plan generator, which raises
PlanImageRaises(tokens) ==
    \E utterance_id \in {None} \cup {Some(t) : t \in tokens} :
        /\ utterance_id = None \/ plan = None
        /\ ~lesson_saved
        /\ UNCHANGED items_generated
        /\ Apply(plan_image_raises(Session, lesson_state))

\* the receive loop runs while the connection is open
Connected == turn.event # "closed"

NextPlanFailure ==
    \/ Connected /\ AudioEnd(FlowTokens, Texts)
    \/ Connected /\ PlanImage(FlowTokens, FlowPlans)
    \/ Connected /\ PlanImageRaises(FlowTokens)
    \/ Connected /\ ResponseImage(FlowTokens, FlowImages)
    \/ Connected /\ EndSession
    \/ Connected /\ ResetLesson

SpecPlanFailure == Init /\ [][NextPlanFailure]_vars

(* SpecClassify: detect_user_intent as a function of the transcript, of     *)
(* whether there is a last system message to give the LLM as context, and   *)
(* of what the LLM does.                                                    *)

\* transcripts: the empty one, and one for each way through the keyword lists
ClassifyTexts == {""} \cup Texts \cup SkipTexts

\* what the LLM can do when it is asked: raise, or reply with one of the
\* intents of its prompt or with something else
ClassifierReplies == (LlmReplies \ {"skipped"}) \cup {"maybe a hint"}

\* the call detect_user_intent(transcription, context_message, state)
classify(text, context_message, reply) ==
    detect_user_intent(text, IF context_message = None THEN "skipped" ELSE reply)

InitClassify ==
    /\ plan = NewSession.plan
    /\ current_object_index = NewSession.current_object_index
    /\ completed_objects = NewSession.completed_objects
    /\ item_attempts = NewSession.item_attempts
    /\ item_hints_used = NewSession.item_hints_used
    /\ item_gave_up = NewSession.item_gave_up
    /\ waiting_for_repeat = NewSession.waiting_for_repeat
    /\ lesson_saved = NewSession.lesson_saved
    /\ pending_transcription = NewSession.pending_transcription
    /\ pending_image = NewSession.pending_image
    /\ lesson_state = "EVALUATE"
    /\ sent = <<>>
    /\ items_generated = 0
    /\ \E text \in ClassifyTexts, context_message \in {None, Some("prompt")},
          reply \in ClassifierReplies :
           turn = [Quiet("classify") EXCEPT
                       !.pair = Some([text |-> text,
                                      context_message |-> context_message,
                                      reply |-> reply])]

\* the call returns: the record keeps the arguments and gets the intent
Classify ==
    /\ turn.event = "classify"
    /\ turn' = [turn EXCEPT !.event = "classified",
                            !.branch = classify(turn.pair[1].text,
                                                turn.pair[1].context_message,
                                                turn.pair[1].reply)]
    /\ UNCHANGED <<plan, current_object_index, completed_objects, item_attempts,
                   item_hints_used, item_gave_up, waiting_for_repeat, lesson_saved,
                   pending_transcription, pending_image, lesson_state, sent,
                   items_generated>>

NextClassify == Classify

SpecClassify == InitClassify /\ [][NextClassify]_vars

(* SpecSelect: get_next_object_index as a function of the plan and of the  *)
(* list of outcomes, whose records come in any order.                       *)

InitSelect ==
    /\ current_object_index = NewSession.current_object_index
    /\ item_attempts = NewSession.item_attempts
    /\ item_hints_used = NewSession.item_hints_used
    /\ item_gave_up = NewSession.item_gave_up
    /\ waiting_for_repeat = NewSession.waiting_for_repeat
    /\ lesson_saved = NewSession.lesson_saved
    /\ pending_transcription = NewSession.pending_transcription
    /\ pending_image = NewSession.pending_image
    /\ lesson_state = "PROMPT_USER"
    /\ sent = <<>>
    /\ turn = Quiet("select")
    /\ \E p \in SeqsUpTo({"word"}, MaxItems), c \in CompletedLists(MaxItems) :
          /\ plan = Some(p)
          /\ completed_objects = c
          /\ items_generated = Len(p)

\* next_idx = get_next_object_index(plan, completed_objects)
Select ==
    /\ turn.event = "select"
    /\ turn' = Quiet("selected")
    /\ current_object_index' = get_next_object_index(plan[1], completed_objects)
    /\ UNCHANGED <<plan, completed_objects, item_attempts, item_hints_used,
                   item_gave_up, waiting_for_repeat, lesson_saved,
                   pending_transcription, pending_image, lesson_state, sent,
                   items_generated>>

NextSelect == Select

SpecSelect == InitSelect /\ [][NextSelect]_vars

(* SpecGuard: EVALUATE entered in a state its guards reject: no plan, a     *)
(* current index outside the plan, or a pending slot that is empty.         *)
(* ws_stream hands over such a state only for an empty plan: this is        *)
(* evaluate_node, alone and followed by feedback_node, as a function.       *)

GuardPlans == {None} \cup {Some(p) : p \in SeqsUpTo({"word"}, 1)}

GuardSessions ==
    {[NewSession EXCEPT !.plan = p,
                        !.current_object_index = i,
                        !.completed_objects = c,
                        !.item_attempts = a,
                        !.item_hints_used = h,
                        !.waiting_for_repeat = w] :
        p \in GuardPlans, i \in -1 .. 1, c \in {<<>>, <<<<0, "True">>>>},
        a \in {EmptyDict, 0 :> 1}, h \in {EmptyDict, 0 :> 1}, w \in BOOLEAN}

InitGuard ==
    \E ss \in GuardSessions :
        /\ plan = ss.plan
        /\ current_object_index = ss.current_object_index
        /\ completed_objects = ss.completed_objects
        /\ item_attempts = ss.item_attempts
        /\ item_hints_used = ss.item_hints_used
        /\ item_gave_up = ss.item_gave_up
        /\ waiting_for_repeat = ss.waiting_for_repeat
        /\ lesson_saved = ss.lesson_saved
        /\ pending_transcription = ss.pending_transcription
        /\ pending_image = ss.pending_image
        /\ lesson_state = "EVALUATE"
        /\ sent = <<>>
        /\ turn = Quiet("entry")
        /\ items_generated = 0

\* the LessonState handed to the evaluate node, with the pending slots given
entry_state(ss, transcription, image) ==
    [session_state_to_lesson_state(ss) EXCEPT
         !.pending_transcription = transcription,
         !.pending_image = image,
         !.lesson_state = "EVALUATE"]

\* evaluate_node alone on the session as it is
evaluate_entry(ss, transcription, image, ext) ==
    LET updated == evaluate_node(entry_state(ss, transcription, image), ext)
    IN  Result(lesson_state_to_session_state(updated, ss), updated.lesson_state,
               updated.sent,
               Turn("evaluate", TRUE, IF updated.raised THEN "error" ELSE updated.branch,
                    ss.current_object_index, updated.attempt, None, None))

\* invoke_lesson_graph(state, ws, entry_node="evaluate") on the session as it is
invoke_entry(ss, transcription, image, ext) ==
    LET updated == invoke_evaluate(entry_state(ss, transcription, image), ext)
    IN  Result(lesson_state_to_session_state(updated, ss), updated.lesson_state,
               updated.sent,
               Turn("invoke", TRUE, IF updated.error THEN "error" ELSE updated.branch,
                    ss.current_object_index, updated.attempt, None, None))

\* the pending slots of an entry that the guards reject
RejectedSlots ==
    {sl \in [transcription : {None, Some([id |-> "T1", text |-> "manzana"])},
             image : {None, Some([id |-> "T1", data_url |-> "imgA"])}] :
        \/ plan = None
        \/ current_object_index < 0
        \/ current_object_index >= Len(plan[1])
        \/ sl.transcription = None
        \/ sl.image = None}

EvaluateEntry ==
    \E sl \in RejectedSlots :
        /\ turn.event = "entry"
        /\ UNCHANGED items_generated
        /\ Apply(evaluate_entry(Session, sl.transcription, sl.image, NoCalls))

InvokeEntry ==
    \E sl \in RejectedSlots :
        /\ turn.event = "entry"
        /\ UNCHANGED items_generated
        /\ Apply(invoke_entry(Session, sl.transcription, sl.image, NoCalls))

NextGuard ==
    \/ EvaluateEntry
    \/ InvokeEntry

SpecGuard == InitGuard /\ [][NextGuard]_vars

(* SpecProgress: one lesson with a learner who keeps answering.  No control *)
(* event and no second plan; the target word of an object may be empty.  The *)
(* receive loop takes the next event whenever there is one (weak fairness of *)
(* the loop); what the learner sends is left open.                           *)

ProgressPlans == SeqsUpTo(TargetNames, MaxItems)

\* the plan image that starts the lesson
StartLesson == plan = None /\ PlanImage(FlowTokens, ProgressPlans)

NextProgress ==
    \/ AudioEnd(FlowTokens, Texts)
    \/ StartLesson
    \/ ResponseImage(FlowTokens, FlowImages)

SpecProgress == Init /\ [][NextProgress]_vars /\ WF_vars(NextProgress)

---------------------------------------------------------------------------
(* Claims *)

\* C1: in every reachable session state, after any sequence of plan-image,
\* paired-turn and control events, item_attempts[i] is at most max_attempts (3)
\* for every item index i.
C1_AttemptsAtMostMax ==
    \A i \in DOMAIN item_attempts : item_attempts[i] <= max_attempts

\* C2: in every reachable session state item_hints_used[i] is between 0 and 2
\* for every item index i.
C2_HintsWithinBudget ==
    \A i \in DOMAIN item_hints_used :
        item_hints_used[i] >= 0 /\ item_hints_used[i] <= 2

\* a hint was asked for with both hints of the item already used
C2_Witness ==
    /\ turn.branch = "hint"
    /\ turn.item \in DOMAIN item_hints_used
    /\ item_hints_used[turn.item] = 2
    /\ \E k \in DOMAIN sent : sent[k].type = "hint" /\ sent[k].payload = Some(<<"no hints left">>)

\* the verdicts (evaluation_result payloads) among the messages of the last event
Verdicts ==
    {sent[k].payload[1] : k \in {j \in DOMAIN sent : sent[j].type = "evaluation_result"}}

\* the summaries (lesson_complete payloads) among the messages of the last event
Summaries ==
    {sent[k].payload[1] : k \in {j \in DOMAIN sent : sent[j].type = "lesson_complete"}}

\* the records of completed_objects
Outcomes_of(completed) == {completed[k] : k \in DOMAIN completed}

\* item i is put into completed_objects by the step
EntersCompleted(i) ==
    /\ i \notin CompletedIndices(completed_objects)
    /\ i \in CompletedIndices(completed_objects')

\* the step is an answer turn on item i judged correct, or a skip turn on item i
CorrectOrSkipped(i) ==
    /\ turn'.fired
    /\ turn'.item = i
    /\ \/ turn'.branch = "evaluation" /\ \E v \in Verdicts' : v.correct
       \/ turn'.branch = "skip"

\* the step is an answer turn on item i
AnswerTurnOn(i) ==
    turn'.fired /\ turn'.item = i /\ turn'.branch = "evaluation"

\* the step is the turn on item i that follows the reveal of its answer
RepeatTurnOn(i) ==
    turn'.fired /\ turn'.item = i /\ turn'.branch = "repeat"

\* the item indices of the plans of the model
ItemIndices == 0 .. MaxItems - 1

\* C3 (as stated): an item index i is added to completed if and only if the
\* judge verdict for it was correct, or attempts[i] equals max_attempts, or it
\* was skipped; no other turn puts an item into completed.
C3_EntersIffCorrectMaxOrSkipped ==
    [][\A i \in ItemIndices :
          EntersCompleted(i) <=>
              \/ CorrectOrSkipped(i)
              \/ AnswerTurnOn(i) /\ Get(item_attempts', i, 0) = max_attempts]_vars

\* C3 (amended): an item index i is added to completed if and only if the turn
\* on it was an answer judged correct, or an answer whose attempt number is at
\* least max_attempts, or a skip, or the turn that follows the reveal of the
\* answer (which finalizes the item whatever its attempt count).
C3_EntersIffFinalizingTurn ==
    [][\A i \in ItemIndices :
          EntersCompleted(i) <=>
              \/ CorrectOrSkipped(i)
              \/ AnswerTurnOn(i) /\ Get(item_attempts', i, 0) >= max_attempts
              \/ RepeatTurnOn(i)]_vars

\* the turn after a reveal finalized an item that has fewer than max_attempts attempts
C3_Witness ==
    /\ turn.fired
    /\ turn.branch = "repeat"
    /\ <<turn.item, "False">> \in Outcomes_of(completed_objects)
    /\ Get(item_attempts, turn.item, 0) < max_attempts

C5_AnswerAttemptRule ==
    (turn.fired /\ turn.branch = "evaluation") =>
        LET i == turn.item
            n == turn.attempt
        IN  /\ Get(item_attempts, i, 0) = n
            /\ \A v \in Verdicts :
                  /\ v.attempt_number = n
                  /\ IF v.correct \/ n >= max_attempts
                     THEN <<i, PyBool(v.correct)>> \in Outcomes_of(completed_objects)
                     ELSE /\ i \notin CompletedIndices(completed_objects)
                          /\ lesson_state = "AWAIT_RESPONSE"
                          /\ current_object_index = i
            /\ Cardinality(Verdicts) = 1

\* the third incorrect answer on an item finalized it as incorrect
C5_Witness ==
    /\ turn.fired
    /\ turn.branch = "evaluation"
    /\ turn.attempt = 3
    /\ Get(item_attempts, turn.item, 0) = 3
    /\ \E v \in Verdicts : ~v.correct
    /\ <<turn.item, "False">> \in Outcomes_of(completed_objects)

\* C6: when a paired turn leaves every one of the N plan items with an outcome,
\* the turn ends with lesson_state = COMPLETE and lesson_completed = true, and
\* the summary sent in lesson_complete has exactly N item records, one per item
\* index.
C6_CompleteWithFullSummary ==
    (/\ turn.fired
     /\ turn.branch \in {"evaluation", "repeat", "skip"}
     /\ plan # None
     /\ CompletedIndices(completed_objects) = 0 .. Len(plan[1]) - 1)
    => /\ lesson_state = "COMPLETE"
       /\ lesson_saved
       /\ Cardinality(Summaries) = 1
       /\ \A summary \in Summaries :
             /\ Len(summary.items) = Len(plan[1])
             /\ \A i \in 0 .. Len(plan[1]) - 1 :
                   Cardinality({k \in DOMAIN summary.items : summary.items[k].index = i}) = 1

\* the event the last handler accepted, as a pending transcription / image
ArrivedTranscription(t) == [id |-> t.arrived[1].id, text |-> t.arrived[1].body]
ArrivedImage(t) == [id |-> t.arrived[1].id, data_url |-> t.arrived[1].body]

\* C7: an evaluation is triggered only when the transcription and the image
\* carry the same correlation id, and it uses the image (transcription) that is
\* stored at that moment; an accepted event whose id differs from the stored
\* counterpart triggers nothing: it is stored and the counterpart stays pending.
\* So after an image for T1 and a transcript for T2 both are pending, and the
\* transcript for T1 that follows fires with the stored T1 image.
C7_PairsOnlySameId ==
    [][/\ turn'.fired =>
            /\ turn'.pair[1].transcription.id = turn'.pair[1].image.id
            /\ turn'.event = "audio_end" =>
                  /\ turn'.pair[1].transcription = ArrivedTranscription(turn')
                  /\ pending_image = Some(turn'.pair[1].image)
            /\ turn'.event = "image" =>
                  /\ turn'.pair[1].image = ArrivedImage(turn')
                  /\ pending_transcription = Some(turn'.pair[1].transcription)
       /\ (~turn'.fired /\ turn'.event = "audio_end" /\ turn'.arrived # None) =>
            /\ pending_image = None \/ pending_image[1].id # turn'.arrived[1].id
            /\ pending_image' = pending_image
            /\ pending_transcription' = Some(ArrivedTranscription(turn'))
       /\ (~turn'.fired /\ turn'.event = "image" /\ turn'.arrived # None) =>
            /\ pending_transcription = None
                  \/ pending_transcription[1].id # turn'.arrived[1].id
            /\ pending_transcription' = pending_transcription
            /\ pending_image' = Some(ArrivedImage(turn'))]_vars

\* with the image of T1 stored and a transcript of T2 pending, the transcript
\* of T1 arrived: the evaluation fired on the T1 transcript and the stored image
C7_Witness ==
    /\ turn.fired
    /\ turn.event = "audio_end"
    /\ turn.branch = "evaluation"
    /\ turn.discarded # None
    /\ turn.discarded[1].id = "T2"
    /\ turn.pair[1].transcription.id = "T1"
    /\ turn.pair[1].image.id = "T1"

\* C8: the session holds at most one pending transcription and at most one
\* pending image; an accepted transcription (response image) that is not matched
\* takes the slot, whatever was pending there is gone, and a pair handed to the
\* graph is made of the event that just arrived and the one event in the other
\* slot, so an overwritten event is never paired.
C8_SinglePendingSlots ==
    /\ Len(pending_transcription) <= 1
    /\ Len(pending_image) <= 1
    /\ (~turn.fired /\ turn.event = "audio_end" /\ turn.arrived # None) =>
           pending_transcription = Some(ArrivedTranscription(turn))
    /\ (~turn.fired /\ turn.event = "image" /\ turn.arrived # None) =>
           pending_image = Some(ArrivedImage(turn))
    /\ (turn.fired /\ turn.event = "audio_end") =>
           turn.pair[1].transcription = ArrivedTranscription(turn)
    /\ (turn.fired /\ turn.event = "image") =>
           turn.pair[1].image = ArrivedImage(turn)

\* an unmatched transcription took the slot of a different pending transcription
C8_Witness ==
    /\ ~turn.fired
    /\ turn.event = "audio_end"
    /\ turn.arrived # None
    /\ turn.discarded # None
    /\ turn.discarded # turn.arrived
    /\ pending_transcription = Some(ArrivedTranscription(turn))

\* C9: after a matched pair has been handed to EVALUATE and the handler has
\* returned, pending_transcription and pending_image are both empty, on every
\* branch of the turn (graph error included).
C9_PendingClearedAfterTurn ==
    turn.fired => pending_transcription = None /\ pending_image = None

TurnText == turn'.pair[1].transcription.text

\* the types of the messages of the last event
SentTypes == {sent[k].type : k \in DOMAIN sent}

\* the messages of the last event
SentMsgs == {sent[k] : k \in DOMAIN sent}

\* the step is a turn on item i, not a repeat turn, whose transcript is
\* classified as dont_know (by keyword, or by the branch that ran)
DontKnowTurnOn(i) ==
    /\ turn'.fired
    /\ turn'.item = i
    /\ turn'.branch # "guard"
    /\ ~waiting_for_repeat
    /\ \/ turn'.branch \in {"first_dont_know", "reveal"}
       \/ detect_user_intent(TurnText, NoCalls.llm) = "dont_know"

\* C11: a dont_know turn on item i with hints_used[i] = 0 and gave_up[i] = 0
\* sends hint number 1 with the notice to ask again, sets gave_up[i] = 1 and
\* hints_used[i] = 1, reveals no answer, leaves waiting_for_repeat false and
\* item i out of completed, and the lesson awaits a response on the same item.
C11_FirstDontKnowGivesHint ==
    [][\A i \in ItemIndices :
          (DontKnowTurnOn(i)
             /\ Get(item_hints_used, i, 0) = 0
             /\ Get(item_gave_up, i, 0) = 0)
          => /\ Msg("hint", i, Some(<<"hint", 1, "ask again">>)) \in SentMsgs'
             /\ "answer_given" \notin SentTypes'
             /\ Get(item_gave_up', i, 0) = 1
             /\ Get(item_hints_used', i, 0) = 1
             /\ ~waiting_for_repeat'
             /\ i \notin CompletedIndices(completed_objects')
             /\ lesson_state' = "AWAIT_RESPONSE"
             /\ current_object_index' = i]_vars

\* C12: a dont_know turn on item i with hints_used[i] > 0 or gave_up[i] >= 1
\* sends answer_given, adds one to gave_up[i], sets waiting_for_repeat and the
\* lesson keeps awaiting a response on item i, which stays out of completed.
\* The paired turn that follows (waiting_for_repeat set), whatever its
\* transcript, runs neither the classifier nor the judge: it puts (i, False)
\* into completed, resets waiting_for_repeat and uses no attempt.
C12_RevealThenRepeatFinalizes ==
    [][\A i \in ItemIndices :
          /\ (DontKnowTurnOn(i)
                 /\ (Get(item_hints_used, i, 0) > 0 \/ Get(item_gave_up, i, 0) >= 1))
              => /\ Msg("answer_given", i, None) \in SentMsgs'
                 /\ Get(item_gave_up', i, 0) = Get(item_gave_up, i, 0) + 1
                 /\ waiting_for_repeat'
                 /\ lesson_state' = "AWAIT_RESPONSE"
                 /\ current_object_index' = i
                 /\ i \notin CompletedIndices(completed_objects')
          /\ (turn'.fired /\ turn'.item = i /\ turn'.branch # "guard"
                 /\ waiting_for_repeat)
              => /\ turn'.branch = "repeat"
                 /\ <<i, "False">> \in Outcomes_of(completed_objects')
                 /\ ~waiting_for_repeat'
                 /\ SentTypes' \cap {"evaluation_result", "hint", "answer_given"} = {}
                 /\ item_attempts' = item_attempts
                 /\ item_hints_used' = item_hints_used
                 /\ item_gave_up' = item_gave_up]_vars

\* after a reveal the learner said the word, and the item was closed as
\* incorrect by the repeat turn
C12_Witness ==
    /\ turn.fired
    /\ turn.branch = "repeat"
    /\ turn.pair[1].transcription.text = "manzana"
    /\ <<turn.item, "False">> \in Outcomes_of(completed_objects)
    /\ Get(item_gave_up, turn.item, 0) >= 1
    /\ ~waiting_for_repeat

\* the step is a turn on item i, not a repeat turn, whose transcript is
\* classified as hint_request (by keyword, or by the branch that ran)
HintTurnOn(i) ==
    /\ turn'.fired
    /\ turn'.item = i
    /\ turn'.branch # "guard"
    /\ ~waiting_for_repeat
    /\ \/ turn'.branch = "hint"
       \/ detect_user_intent(TurnText, NoCalls.llm) = "hint_request"

\* C13: a hint_request turn on item i with hints_used[i] = h < 2 sends hint
\* number h + 1 and sets hints_used[i] to exactly h + 1, also when the hint
\* generator fails and the fallback text is used; the lesson keeps awaiting a
\* response on item i, which is not put into completed.
C13_HintRequestUsesOneHint ==
    [][\A i \in ItemIndices :
          (HintTurnOn(i) /\ Get(item_hints_used, i, 0) < max_hints)
          => /\ Msg("hint", i, Some(<<"hint", Get(item_hints_used, i, 0) + 1>>))
                    \in SentMsgs'
             /\ Get(item_hints_used', i, 0) = Get(item_hints_used, i, 0) + 1
             /\ lesson_state' = "AWAIT_RESPONSE"
             /\ current_object_index' = i
             /\ i \notin CompletedIndices(completed_objects')]_vars

\* C14: a hint_request turn on item i with hints_used[i] >= 2 sends the
\* 'no hints remaining' message and changes nothing of the lesson: hints_used,
\* gave_up, attempts, completed, current_item_index and waiting_for_repeat are
\* as before, and no item is marked skipped.
C14_NoHintsLeftChangesNothing ==
    [][\A i \in ItemIndices :
          (HintTurnOn(i) /\ Get(item_hints_used, i, 0) >= max_hints)
          => /\ Msg("hint", i, Some(<<"no hints left">>)) \in SentMsgs'
             /\ SentTypes' = {"hint"} \/ SentTypes' = {"asr_final", "hint"}
             /\ item_hints_used' = item_hints_used
             /\ item_gave_up' = item_gave_up
             /\ item_attempts' = item_attempts
             /\ completed_objects' = completed_objects
             /\ current_object_index' = current_object_index
             /\ waiting_for_repeat' = waiting_for_repeat
             /\ lesson_state' = "AWAIT_RESPONSE"]_vars

\* a third hint was asked for on an open item: it was refused and the item is
\* still the current one, with its two hints used
C14_Witness ==
    /\ turn.fired
    /\ turn.branch = "hint"
    /\ Msg("hint", turn.item, Some(<<"no hints left">>)) \in SentMsgs
    /\ Get(item_hints_used, turn.item, 0) = max_hints
    /\ current_object_index = turn.item
    /\ turn.item \notin CompletedIndices(completed_objects)
    /\ lesson_state = "AWAIT_RESPONSE"

\* C15: a paired turn on item i in which the learner says "I don't have that"
\* marks the item skipped: (i, Skipped) is added to completed, no attempt is
\* used and no verdict is produced, object_skipped is sent, and the same turn
\* prompts the next item or completes the lesson.
C15_NoObjectSkipsItem ==
    [][\A i \in ItemIndices :
          (turn'.fired /\ turn'.item = i /\ turn'.branch # "guard"
             /\ ~waiting_for_repeat /\ TurnText \in SkipTexts)
          => /\ turn'.branch = "skip"
             /\ <<i, "None">> \in Outcomes_of(completed_objects')
             /\ item_attempts' = item_attempts
             /\ "evaluation_result" \notin SentTypes'
             /\ Msg("object_skipped", i, None) \in SentMsgs'
             /\ SentTypes' \cap {"prompt_next", "lesson_complete"} # {}]_vars

C17_ResetClearsLesson ==
    turn.event = "reset_lesson"
    => /\ plan = None
       /\ item_attempts = EmptyDict
       /\ item_hints_used = EmptyDict
       /\ item_gave_up = EmptyDict
       /\ completed_objects = <<>>
       /\ current_object_index = -1
       /\ ~waiting_for_repeat
       /\ pending_transcription = None
       /\ pending_image = None
       /\ ~lesson_saved

C20_CompletedMeansAllOutcomes ==
    (lesson_saved /\ plan # None)
    => \A i \in 0 .. Len(plan[1]) - 1 : i \in CompletedIndices(completed_objects)

\* a lesson of two items has completed through the turn that closed item 1
C20_Witness ==
    /\ lesson_saved
    /\ plan # None
    /\ Len(plan[1]) = 2
    /\ turn.fired
    /\ turn.item = 1
    /\ "lesson_complete" \in SentTypes
    /\ CompletedIndices(completed_objects) = {0, 1}

\* the step is the turn that reveals the answer of item i
RevealTurnOn(i) ==
    /\ turn'.fired
    /\ turn'.item = i
    /\ turn'.branch = "reveal"
    /\ Msg("answer_given", i, None) \in SentMsgs'

\* C21: waiting_for_repeat is true only if the last processed turn revealed
\* the answer of the current item and no turn has been processed since: after
\* a step the flag is true only if the step is that reveal, or the flag was
\* true before and the step is no turn, no reset, no end_session and no new
\* plan (plan and current item as before).
C21_WaitingOnlyAfterReveal ==
    [][waiting_for_repeat'
       => \/ RevealTurnOn(current_object_index')
          \/ /\ waiting_for_repeat
             /\ ~turn'.fired
             /\ turn'.event \notin {"reset_lesson", "end_session", "plan"}
             /\ plan' = plan
             /\ plan # None
             /\ current_object_index' = current_object_index]_vars

\* C22: once a plan is set, no learner event (audio_end, image with or
\* without utterance_id, whatever the turn it completes) changes or replaces
\* it: only reset_lesson and end_session remove it.
C22_PlanFixedForLesson ==
    [][(plan # None /\ turn'.event \notin {"reset_lesson", "end_session"})
       => plan' = plan]_vars

\* the step runs PROMPT_USER: a plan was generated, or a turn closed its item
EntersPromptUser ==
    \/ turn'.event = "plan"
    \/ /\ turn'.fired
       /\ turn'.branch \in {"repeat", "evaluation", "skip"}
       /\ turn'.item \in CompletedIndices(completed_objects')

\* the prompt_next messages of the last event
Prompts == {k \in DOMAIN sent : sent[k].type = "prompt_next"}

\* C23: PROMPT_USER selects the lowest item index without an outcome.  If
\* there is none (an empty plan included) the lesson goes to COMPLETE;
\* otherwise that index becomes the current item, exactly one prompt_next is
\* sent, for that item, and the lesson goes to AWAIT_RESPONSE.
C23_PromptSelectsLowestOpen ==
    [][EntersPromptUser
       => LET open == {i \in 0 .. Len(plan'[1]) - 1 :
                         i \notin CompletedIndices(completed_objects')}
          IN  IF open = {} THEN lesson_state' = "COMPLETE"
              ELSE /\ current_object_index' \in open
                   /\ \A j \in open : current_object_index' <= j
                   /\ Cardinality(Prompts') = 1
                   /\ \A k \in Prompts' :
                         sent'[k].object_index = current_object_index'
                   /\ lesson_state' = "AWAIT_RESPONSE"]_vars

\* C24: FEEDBACK, at the end of a turn.  If every item of the plan has an
\* outcome it sends the summary, sets lesson_completed and the lesson is
\* COMPLETE; else if the item of the turn has no outcome the lesson awaits a
\* response on it and no prompt is sent; else PROMPT_USER runs for the next
\* item (one prompt_next, for an open item other than the one of the turn).
C24_FeedbackSuccessor ==
    [][(turn'.fired /\ turn'.branch # "error")
       => LET done == CompletedIndices(completed_objects')
          IN  IF \A i \in 0 .. Len(plan'[1]) - 1 : i \in done
              THEN /\ "lesson_complete" \in SentTypes'
                   /\ lesson_saved'
                   /\ lesson_state' = "COMPLETE"
              ELSE IF turn'.item \notin done
              THEN /\ lesson_state' = "AWAIT_RESPONSE"
                   /\ Prompts' = {}
                   /\ "lesson_complete" \notin SentTypes'
                   /\ ~lesson_saved'
                   /\ current_object_index' = turn'.item
              ELSE /\ lesson_state' = "AWAIT_RESPONSE"
                   /\ Cardinality(Prompts') = 1
                   /\ "lesson_complete" \notin SentTypes'
                   /\ ~lesson_saved'
                   /\ current_object_index' # turn'.item
                   /\ current_object_index' \notin done]_vars

\* the turn closed item 0 of a plan of two and the learner was prompted for
\* item 1
C24_Witness ==
    /\ turn.fired
    /\ turn.item = 0
    /\ plan # None
    /\ Len(plan[1]) = 2
    /\ CompletedIndices(completed_objects) = {0}
    /\ current_object_index = 1
    /\ \E k \in Prompts : sent[k].object_index = 1
    /\ lesson_state = "AWAIT_RESPONSE"

\* C25: whatever external call fails during a turn (judge, hint generator,
\* answer reveal, prompt generator, speech synthesis), the turn still sends
\* its message (the hint on a hint turn, the hint or the answer on a dont_know
\* turn, the verdict on an answer turn), no graph error is reported and the
\* turn ends with the lesson in AWAIT_RESPONSE or COMPLETE.
C25_ExternalFailureHasFallback ==
    [][turn'.fired
       => /\ turn'.branch # "error"
          /\ Status("error") \notin SentMsgs'
          /\ lesson_state' \in {"AWAIT_RESPONSE", "COMPLETE"}
          /\ \A i \in ItemIndices :
                /\ HintTurnOn(i) => "hint" \in SentTypes'
                /\ DontKnowTurnOn(i) => SentTypes' \cap {"hint", "answer_given"} # {}
                /\ AnswerTurnOn(i) => "evaluation_result" \in SentTypes']_vars

\* C26: when EVALUATE is entered without a plan, with a current index that is
\* negative or not below the plan length, or with an empty pending slot, no
\* counter and no completion record changes, no exception reaches the caller,
\* evaluate_node forces FEEDBACK, and the graph ends in COMPLETE when the plan
\* is missing.
C26_GuardsForceFeedback ==
    [][turn'.event \in {"evaluate", "invoke"}
       => /\ turn'.branch = "guard"
          /\ Status("error") \notin SentMsgs'
          /\ item_attempts' = item_attempts
          /\ item_hints_used' = item_hints_used
          /\ item_gave_up' = item_gave_up
          /\ completed_objects' = completed_objects
          /\ waiting_for_repeat' = waiting_for_repeat
          /\ turn'.event = "evaluate" => lesson_state' = "FEEDBACK"
          /\ (turn'.event = "invoke" /\ plan = None) => lesson_state' = "COMPLETE"]_vars

\* the graph was entered at evaluate without a plan, with a counter and an
\* outcome recorded: it ended in COMPLETE and both are as they were
C26_Witness ==
    /\ turn.event = "invoke"
    /\ turn.branch = "guard"
    /\ plan = None
    /\ lesson_state = "COMPLETE"
    /\ item_attempts = 0 :> 1
    /\ completed_objects = <<<<0, "True">>>>

\* C27: if the plan-generation call fails, for whatever reason, the session
\* is not terminated: an error status is sent, the plan, the counters and the
\* completions are as before, and the connection stays open for further
\* events.
C27_PlanFailureKeepsSession ==
    [][(~lesson_saved /\ ~turn'.fired /\ turn'.arrived = None
          /\ turn'.event \in {"image", "closed"})
       => /\ turn'.event # "closed"
          /\ sent' = <<Status("error")>>
          /\ UNCHANGED <<plan, current_object_index, completed_objects,
                         item_attempts, item_hints_used, item_gave_up,
                         waiting_for_repeat, lesson_saved>>]_vars

\* C28: every verdict, the one evaluate_response builds from whatever pair
\* (correct, error_category) the judge returns and every evaluation_result
\* sent to the learner, has correct = false when its error_category is
\* non-null; the verdict built when the judge call fails has correct = false.
C28_ErrorCategoryImpliesIncorrect ==
    /\ \A v \in Verdicts : v.error_category # None => ~v.correct
    /\ \A j \in JudgeOutcomes, n \in 1 .. max_attempts :
          IF j.raised THEN ~judge_fallback(n).correct
          ELSE evaluate_response(j, n).error_category # None
                  => ~evaluate_response(j, n).correct

\* a verdict with an error category was sent, and it is an incorrect one
C28_Witness ==
    /\ turn.fired
    /\ turn.branch = "evaluation"
    /\ \E v \in Verdicts :
          v.error_category = Some("wrong_word_actual") /\ ~v.correct

\* the intents of the classifier's contract
Intents == {"hint_request", "dont_know", "no_object", "answer_attempt"}

\* C29: detect_user_intent returns one of hint_request, dont_know, no_object,
\* answer_attempt; it returns answer_attempt when the transcript is empty,
\* and, when no keyword of the transcript matches, when the LLM call fails or
\* replies with something that is none of the intents.
C29_ClassifyTotalWithDefault ==
    turn.event = "classified"
    => LET arg == turn.pair[1]
       IN  /\ turn.branch \in Intents
           /\ arg.text = "" => turn.branch = "answer_attempt"
           /\ (~HasHintKeyword(arg.text) /\ ~HasDontKnowKeyword(arg.text)
                 /\ (arg.reply = "raise" \/ arg.reply \notin Intents))
              => turn.branch = "answer_attempt"

\* the LLM was asked about a transcript without keyword and replied with
\* something that is no intent: the call returned answer_attempt
C29_Witness ==
    /\ turn.event = "classified"
    /\ turn.pair[1].text = "manzana"
    /\ turn.pair[1].context_message # None
    /\ turn.pair[1].reply = "maybe a hint"
    /\ turn.branch = "answer_attempt"

\* C30: get_next_object_index(plan, completed) is the lowest index of the
\* plan that has no record in completed, in whatever order the records were
\* added, and it is -1 exactly when every index of the plan has a record (an
\* empty plan included).
C30_NextIsLowestOpen ==
    turn.event = "selected"
    => LET open == {i \in 0 .. Len(plan[1]) - 1 :
                      i \notin CompletedIndices(completed_objects)}
       IN  /\ current_object_index = -1 <=> open = {}
           /\ open # {} => /\ current_object_index \in open
                           /\ \A j \in open : current_object_index <= j

\* item 1 has the only record, item 0 has none: the function returned 0
C30_Witness ==
    /\ turn.event = "selected"
    /\ Len(plan[1]) = 2
    /\ CompletedIndices(completed_objects) = {1}
    /\ current_object_index = 0

\* the result of the second event when the transcription of an utterance is
\* delivered first and its image second
TranscriptFirst(id, text, data_url, ext) ==
    LET first == audio_end(Session, lesson_state, id, text, TRUE, NoCalls)
    IN  image_event(first.session, first.lesson_state, Some(id), data_url, None, ext)

\* the result of the second event when the image of an utterance is delivered
\* first and its transcription second
ImageFirst(id, text, data_url, ext) ==
    LET first == image_event(Session, lesson_state, Some(id), data_url, None, NoCalls)
    IN  audio_end(first.session, first.lesson_state, id, text, TRUE, ext)

\* the messages of a graph run among the messages of an event
GraphMsgs(msgs) == SelectSeq(msgs, LAMBDA m : m.type # "asr_final")

\* neither pending slot holds an event of utterance id
NothingPendingFor(id) ==
    /\ pending_transcription = None \/ pending_transcription[1].id # id
    /\ pending_image = None \/ pending_image[1].id # id

\* C31: for one utterance id, with a lesson in progress, the transcription
\* delivered first and the image second give the same session (current index,
\* completed, counters, waiting_for_repeat, pending slots, lesson_completed),
\* the same turn and the same messages of the turn as the image delivered
\* first and the transcription second, the external calls doing the same.
C31_ArrivalOrderIrrelevant ==
    (plan # None /\ ~lesson_saved)
    => \A id \in Tokens, text \in Texts, data_url \in FlowImages :
          NothingPendingFor(id)
          => \A ext \in OutcomesFor(Session, text) :
                LET tf == TranscriptFirst(id, text, data_url, ext)
                    if == ImageFirst(id, text, data_url, ext)
                IN  /\ tf.turn.fired /\ if.turn.fired
                    /\ tf.session = if.session
                    /\ tf.lesson_state = if.lesson_state
                    /\ tf.turn.branch = if.turn.branch
                    /\ tf.turn.pair = if.turn.pair
                    /\ GraphMsgs(tf.sent) = GraphMsgs(if.sent)

\* the image of utterance T1 arrived after its transcription and the pair was
\* evaluated; the other order from the same session gives this session too
C31_Witness ==
    /\ turn.fired
    /\ turn.event = "image"
    /\ turn.branch = "evaluation"
    /\ pending_transcription = None
    /\ pending_image = None
    /\ Verdicts # {}


\* C32: whenever a plan is present and the lesson is not completed,
\* current_object_index is the next uncompleted item of the plan; the item
\* the session waits on, which is the item the next turn is evaluated
\* against, has no outcome in completed_objects.
C32_IndexIsNextUncompleted ==
    (plan # None /\ ~lesson_saved)
    => /\ current_object_index = get_next_object_index(plan[1], completed_objects)
       /\ current_object_index \notin CompletedIndices(completed_objects)

\* a lesson in progress waits on its second item after the first got its
\* outcome
C32_Witness ==
    /\ plan # None
    /\ ~lesson_saved
    /\ turn.fired
    /\ turn.item = 0
    /\ 0 \in CompletedIndices(completed_objects)
    /\ current_object_index = 1

\* C33: in every reachable session state the give-up counter of every item is
\* at most 2.
C33_GaveUpAtMostTwo ==
    \A i \in ItemIndices : Get(item_gave_up, i, 0) <= 2

\* C34: item_attempts changes only in an answer turn, by exactly 1 and for
\* the current item, and every answer turn adds that 1; hint, dont_know, skip
\* and repeat turns leave item_attempts as it is, and no turn changes a
\* counter (attempts, hints used, give-ups) of an item other than its own.
C34_AttemptsChangeOnlyByAnswer ==
    [][/\ item_attempts' # item_attempts
          => /\ turn'.fired
             /\ turn'.branch = "evaluation"
             /\ turn'.item = current_object_index
       /\ \A i \in ItemIndices :
             /\ AnswerTurnOn(i)
                => Get(item_attempts', i, 0) = Get(item_attempts, i, 0) + 1
             /\ (turn'.fired /\ turn'.item # i)
                => /\ Get(item_attempts', i, 0) = Get(item_attempts, i, 0)
                   /\ Get(item_hints_used', i, 0) = Get(item_hints_used, i, 0)
                   /\ Get(item_gave_up', i, 0) = Get(item_gave_up, i, 0)]_vars

\* a second answer attempt on item 1 has been counted while item 0 keeps the
\* attempts it was finalized with
C34_Witness ==
    /\ turn.fired
    /\ turn.branch = "evaluation"
    /\ turn.item = 1
    /\ Get(item_attempts, 1, 0) = 2
    /\ Get(item_attempts, 0, 0) >= 1

\* the turn that the arrival of the image makes of the pending transcription,
\* the external calls doing ext
TurnOfPending(ext) ==
    image_event(Session, lesson_state, Some(pending_transcription[1].id),
                "imgA", None, ext)

\* C35: when the judge call fails in an answer turn on item i, the turn counts
\* as an incorrect attempt: item_attempts[i] grows by 1, an evaluation_result
\* with correct = false is sent, item i is finalized ("False") if and only if
\* this was attempt number 3 or more, and otherwise the lesson awaits a
\* response on item i again.
C35_JudgeFailureIsIncorrectAttempt ==
    (/\ plan # None /\ ~lesson_saved /\ ~waiting_for_repeat
     /\ pending_transcription # None
     /\ current_object_index \in 0 .. Len(plan[1]) - 1)
    => \A ext \in Outcomes :
          (/\ ext.judge.raised
           /\ detect_user_intent(pending_transcription[1].text, ext.llm)
                  = "answer_attempt")
          => LET i == current_object_index
                 n == Get(item_attempts, i, 0) + 1
                 r == TurnOfPending(ext)
             IN  /\ r.turn.fired
                 /\ r.turn.branch = "evaluation"
                 /\ Get(r.session.item_attempts, i, 0) = n
                 /\ \E k \in DOMAIN r.sent :
                       /\ r.sent[k].type = "evaluation_result"
                       /\ r.sent[k].object_index = i
                       /\ r.sent[k].payload[1].correct = FALSE
                       /\ r.sent[k].payload[1].attempt_number = n
                 /\ i \in CompletedIndices(r.session.completed_objects)
                        <=> n >= max_attempts
                 /\ n >= max_attempts
                        => \E k \in DOMAIN r.session.completed_objects :
                              r.session.completed_objects[k] = <<i, "False">>
                 /\ n < max_attempts
                        => /\ r.lesson_state = "AWAIT_RESPONSE"
                           /\ r.session.current_object_index = i

\* the third attempt on item 0 got the verdict of a failed judge call and the
\* item was finalized as incorrect
C35_Witness ==
    /\ turn.fired
    /\ turn.branch = "evaluation"
    /\ turn.item = 0
    /\ turn.attempt = 3
    /\ judge_fallback(3) \in Verdicts
    /\ \E k \in DOMAIN completed_objects : completed_objects[k] = <<0, "False">>

\* C36: within one lesson the prompt_next messages go to strictly increasing
\* item indices.  An event sends at most one prompt_next, for the new current
\* item j, with every item below j in completed_objects and j not in it; it
\* is either the plan event that starts the lesson (j = 0) or a turn on the
\* item prompted before, an item below j that the turn has finalized.  A turn
\* that leaves its item open (hint, first dont_know, answer reveal, incorrect
\* attempt before the last) sends no prompt_next, and while the plan stays
\* the current item changes only with a prompt_next, so that it is the item
\* prompted last.
C36_PromptsStrictlyIncrease ==
    [][/\ Cardinality(Prompts') <= 1
       /\ \A k \in Prompts' :
             LET j == sent'[k].object_index
                 done == CompletedIndices(completed_objects')
             IN  /\ j = current_object_index'
                 /\ j \in 0 .. Len(plan'[1]) - 1
                 /\ \A i \in 0 .. j - 1 : i \in done
                 /\ j \notin done
                 /\ \/ turn'.event = "plan" /\ j = 0 /\ done = {}
                    \/ /\ turn'.fired
                       /\ turn'.item = current_object_index
                       /\ turn'.item < j
                       /\ turn'.item \in done
                       /\ plan' = plan
       /\ (turn'.fired /\ turn'.item \notin CompletedIndices(completed_objects'))
          => Prompts' = {}
       /\ (plan # None /\ plan' = plan /\ Prompts' = {})
          => current_object_index' = current_object_index]_vars

\* the turn that finalized item 0 prompted item 1
C36_Witness ==
    /\ turn.fired
    /\ turn.item = 0
    /\ 0 \in CompletedIndices(completed_objects)
    /\ \E k \in Prompts : sent[k].object_index = 1
    /\ current_object_index = 1

\* C37: for one plan, lesson_complete is sent and the summary is saved at most
\* once: once the lesson of the plan is completed (lesson_saved, the plan
\* still in place), no event sends lesson_complete again, an end_session
\* included.
C37_LessonCompleteOnce ==
    [][(plan # None /\ lesson_saved) => "lesson_complete" \notin SentTypes']_vars

\* the connection takes the next audio_end event: whatever its utterance id,
\* the transcription is acknowledged (asr_final) and not refused
AcceptsEvents ==
    \A id \in Tokens, ext \in OutcomesFor(Session, "manzana") :
       LET r == audio_end(Session, lesson_state, id, "manzana", TRUE, ext)
       IN  r.sent # <<>> /\ r.sent[1] = Msg("asr_final", -1, None)

\* C38: when the graph run of a paired turn raises, the session is not updated
\* from the run: plan, current_object_index, completed_objects, item_attempts,
\* item_hints_used, item_gave_up, waiting_for_repeat and lesson_completed are
\* as before the turn, an error status is sent (and nothing else but the
\* asr_final of the event), and the connection keeps taking events.
C38_GraphErrorKeepsSession ==
    /\ [][(turn'.fired /\ turn'.branch = "error")
          => /\ plan' = plan
             /\ current_object_index' = current_object_index
             /\ completed_objects' = completed_objects
             /\ item_attempts' = item_attempts
             /\ item_hints_used' = item_hints_used
             /\ item_gave_up' = item_gave_up
             /\ waiting_for_repeat' = waiting_for_repeat
             /\ lesson_saved' = lesson_saved
             /\ Status("error") \in SentMsgs'
             /\ SentTypes' \subseteq {"asr_final", "status"}]_vars
    /\ []((turn.fired /\ turn.branch = "error") => AcceptsEvents)

\* the graph run of a hint turn raised (empty target_name) with a hint already
\* used on the item
C38_Witness ==
    /\ turn.fired
    /\ turn.branch = "error"
    /\ Status("error") \in SentMsgs
    /\ plan # None
    /\ pending_transcription # None
    /\ pending_image # None

\* the last event was a hint_request turn: the hint branch ran, or the graph
\* run raised on a transcript without the give-up keyword
HintRequestTurn ==
    /\ turn.fired
    /\ \/ turn.branch = "hint"
       \/ /\ turn.branch = "error"
          /\ ~HasDontKnowKeyword(turn.pair[1].transcription.text)

\* C39: a lesson in which the learner keeps sending matched pairs and does
\* not ask for hints forever reaches COMPLETE: if paired turns keep being
\* processed and from some point on none of them is a hint_request turn,
\* every lesson in progress is eventually completed.
C39_LessonCompletes ==
    ([]<>turn.fired /\ <>[]~HintRequestTurn)
    => ((plan # None /\ ~lesson_saved) ~> lesson_saved)
====
